---- MODULE Spec2Model ----
(***************************************************************************)
(* Model of the build subcommand (src/src/build.rs): the staged build      *)
(* pipeline, the bounded-concurrency logo stage (prepare_logos), the       *)
(* cancel-on-first-error join of the two external data collectors          *)
(* (tokio::try_join!) and the credentials read from the environment.       *)
(*                                                                         *)
(* Strings are sequences of characters or of path tokens, so that          *)
(* splitting and formatting are computed and not assumed.                  *)
(***************************************************************************)
EXTENDS Integers, Sequences, FiniteSets, TLC

VARIABLES
    pc,           \* position of build() in its body
    error,        \* the error build() returned, "" while there is none
    webAssets,    \* paths embedded in the binary (WebAssets)
    dirs,         \* directories existing in the output tree
    outFiles,     \* regular files of the output tree outside logos/
    written,      \* paths of the files this run created (logos included)
    logoFiles,    \* digest -> state of logos/<digest>.svg
    items,        \* landscape_data.items
    loaded,       \* landscape_data.items as they were when prepare_logos was called
    cpus,         \* num_cpus::get()
    concurrency,  \* local of prepare_logos
    next,         \* index of the next item the stream will yield
    tasks,        \* per item: state of its future in the buffer
    logos,        \* the HashMap<Uuid, Option<String>> being collected
    env,          \* process environment: the two variables read
    credentials,  \* result of read_credentials
    coll,         \* the two collector futures of try_join!
    extData       \* the results try_join! handed to build()

vars == <<pc, error, webAssets, dirs, outFiles, written, logoFiles, items, loaded, cpus,
          concurrency, next, tasks, logos, env, credentials, coll, extData>>

-----------------------------------------------------------------------------
(* Bounds of the model *)

MaxItems == 3            \* entities loaded from the data source
MaxEnvLen == 3           \* characters of an environment value
MaxCollectorSteps == 1   \* suspension points of a collector before it completes

(* Program constants *)

PREPARE_LOGOS_MAX_CONCURRENCY == 20
LOGOS_PATH == "logos"
DATASETS_PATH == "data"

(* Input domains *)

Digests == {"d1", "d2"}
CpuCounts == {1, 2, 24}
Collectors == {"crunchbase", "github"}
EnvChars == {"a", "b", ","}

None == [some |-> FALSE, v |-> <<>>]
Some(x) == [some |-> TRUE, v |-> x]

Min(a, b) == IF a < b THEN a ELSE b

RECURSIVE StringsUpTo(_)
StringsUpTo(n) ==
    IF n = 0 THEN {<<>>}
    ELSE LET shorter == StringsUpTo(n - 1)
         IN  shorter \cup {Append(s, c) : s \in shorter, c \in EnvChars}

TokenExample == <<"t", "1", ",", "t", "2", ",", "t", "3">>

EnvValues == {None} \cup {Some(s) : s \in StringsUpTo(MaxEnvLen) \cup {TokenExample}}
KeyValues == {None, Some(<<"a">>), Some(<<"a", ",", "b">>)}

(* environments used by the whole-pipeline specification *)
EnvSmall == {[key |-> None, tokens |-> None],
             [key |-> Some(<<"a">>), tokens |-> Some(<<"a", ",", "b">>)]}

-----------------------------------------------------------------------------
(* Embedded web assets: paths are sequences of segments *)

BuiltBundle == {<<"index.html">>, <<".keep">>, <<"assets", "index.js">>, <<"favicon.ico">>}
EmptyBundle == {<<".keep">>}

check_web_assets(bundle) == \E path \in bundle : path # <<>> /\ Head(path) = "assets" /\ Len(path) > 1

CopiedAssets(bundle) == {p \in bundle : p # <<"index.html">> /\ p # <<".keep">>}

-----------------------------------------------------------------------------
(* Output trees the build may find: absent, an empty directory, and the    *)
(* output of an earlier build next to an unrelated file.                   *)
InitialTrees ==
    { [d |-> {}, f |-> {}, l |-> {}],
      [d |-> {"out"}, f |-> {}, l |-> {}],
      [d |-> {"out", DATASETS_PATH, LOGOS_PATH},
       f |-> {<<"README">>, <<DATASETS_PATH, "base.json">>, <<DATASETS_PATH, "full.json">>,
              <<"index.html">>},
       l |-> {"d1"}] }

(* st: pending, spawned, hung (spawned and never to end), resolved, done;  *)
(* runs: times the item's future was started; late: the item was collected *)
(* while an item before it in the sequence was not                         *)
NoTask ==
    [st |-> "pending", out |-> "none", digest |-> "-", copy |-> "none",
     runs |-> 0, late |-> FALSE]

Init ==
    /\ pc = "check_web_assets"
    /\ error = ""
    /\ webAssets \in {BuiltBundle, EmptyBundle}
    /\ \E t \in InitialTrees :
         /\ dirs = t.d
         /\ outFiles = t.f
         /\ logoFiles = [d \in Digests |-> IF d \in t.l THEN "written" ELSE "absent"]
    /\ written = {}
    /\ items = <<>>
    /\ loaded = <<>>
    /\ cpus \in CpuCounts
    /\ concurrency = 0
    /\ next = 1
    /\ tasks = <<>>
    /\ logos = {}
    /\ env \in EnvSmall
    /\ credentials = [crunchbase_api_key |-> None, github_tokens |-> None]
    /\ coll = [c \in Collectors |-> [st |-> "idle", steps |-> 0]]
    /\ extData = {}

Fail(e) == pc' = "failed" /\ error' = e

-----------------------------------------------------------------------------
(* the result of check_web_assets is not propagated: the build goes on *)
CheckWebAssetsUnpropagated ==
    /\ pc = "check_web_assets"
    /\ pc' = "setup_output_dir"
    /\ error' = IF check_web_assets(webAssets) THEN error ELSE "web assets not found"
    /\ UNCHANGED <<webAssets, dirs, outFiles, written, logoFiles, items, loaded, cpus, concurrency,
                   next, tasks, logos, env, credentials, coll, extData>>

(* S0: check_web_assets()? *)
CheckWebAssets ==
    /\ pc = "check_web_assets"
    /\ IF check_web_assets(webAssets)
       THEN pc' = "setup_output_dir" /\ error' = error
       ELSE Fail("web assets not found")
    /\ UNCHANGED <<webAssets, dirs, outFiles, written, logoFiles, items, loaded, cpus, concurrency,
                   next, tasks, logos, env, credentials, coll, extData>>

(* S1: setup_output_dir(&args.output_dir)?                                  *)
(* The three directories are created in order when absent; failAt > 0 is   *)
(* an I/O error at the failAt-th creation, which only a creation that is    *)
(* attempted can raise.                                                     *)
SetupOrder == <<"out", DATASETS_PATH, LOGOS_PATH>>

(* the directories are created without looking whether they exist: the   *)
(* creation of one that exists fails                                       *)
RECURSIVE setup_output_dir_unchecked(_, _, _)
setup_output_dir_unchecked(ds, k, failAt) ==
    IF k > Len(SetupOrder) THEN [dirs |-> ds, ok |-> TRUE]
    ELSE IF SetupOrder[k] \in ds \/ failAt = k THEN [dirs |-> ds, ok |-> FALSE]
    ELSE setup_output_dir_unchecked(ds \cup {SetupOrder[k]}, k + 1, failAt)

RECURSIVE setup_output_dir(_, _, _)
setup_output_dir(ds, k, failAt) ==
    IF k > Len(SetupOrder) THEN [dirs |-> ds, ok |-> TRUE]
    ELSE IF SetupOrder[k] \in ds THEN setup_output_dir(ds, k + 1, failAt)
    ELSE IF failAt = k THEN [dirs |-> ds, ok |-> FALSE]
    ELSE setup_output_dir(ds \cup {SetupOrder[k]}, k + 1, failAt)

(* one call of setup_output_dir, made at `from` and leading to `to` *)
SetupRun(from, to) ==
    /\ pc = from
    /\ \E failAt \in 0..Len(SetupOrder) :
         LET r == setup_output_dir(dirs, 1, failAt)
         IN  /\ dirs' = r.dirs
             /\ IF r.ok THEN pc' = to /\ error' = error
                ELSE Fail("setup_output_dir")
    /\ UNCHANGED <<webAssets, outFiles, written, logoFiles, items, loaded, cpus, concurrency,
                   next, tasks, logos, env, credentials, coll, extData>>

SetupOutputDir == SetupRun("setup_output_dir", "cache_new")

(* S2: Cache::new(&args.cache_dir)? *)
CacheNew ==
    /\ pc = "cache_new"
    /\ \E ok \in BOOLEAN :
         IF ok THEN pc' = "get_landscape_data" /\ error' = error
         ELSE Fail("cache")
    /\ UNCHANGED <<webAssets, dirs, outFiles, written, logoFiles, items, loaded, cpus, concurrency,
                   next, tasks, logos, env, credentials, coll, extData>>

(* S3: get_landscape_data(..).await? ; get_landscape_settings(..).await?    *)
(* Entity ids are unique; they are not the positions of the entities.       *)
LandscapeItems(n) ==
    [i \in 1..n |-> [id |-> n + 1 - i, name |-> "item", logo |-> <<"ref.svg">>]]

GetLandscapeData ==
    /\ pc = "get_landscape_data"
    /\ \/ \E n \in 0..MaxItems :
            /\ items' = LandscapeItems(n)
            /\ pc' = "get_landscape_settings"
            /\ error' = error
       \/ Fail("landscape data") /\ items' = items
    /\ UNCHANGED <<webAssets, dirs, outFiles, written, logoFiles, loaded, cpus, concurrency,
                   next, tasks, logos, env, credentials, coll, extData>>

GetLandscapeSettings ==
    /\ pc = "get_landscape_settings"
    /\ \E ok \in BOOLEAN :
         IF ok THEN pc' = "enrich" /\ error' = error
         ELSE Fail("landscape settings")
    /\ UNCHANGED <<webAssets, dirs, outFiles, written, logoFiles, items, loaded, cpus, concurrency,
                   next, tasks, logos, env, credentials, coll, extData>>

(* S4: add_featured_items_data(&settings)? ; add_member_subcategory(..) *)
Enrich ==
    /\ pc = "enrich"
    /\ \E ok \in BOOLEAN :
         IF ok THEN pc' = "prepare_logos" /\ error' = error
         ELSE Fail("featured items")
    /\ UNCHANGED <<webAssets, dirs, outFiles, written, logoFiles, items, loaded, cpus, concurrency,
                   next, tasks, logos, env, credentials, coll, extData>>

-----------------------------------------------------------------------------
(* S5: prepare_logos(&cache, &args.logos_source, &mut landscape_data, ..)  *)

(* let mut concurrency = num_cpus::get(); capped at the maximum *)
Concurrency(n) ==
    IF n > PREPARE_LOGOS_MAX_CONCURRENCY THEN PREPARE_LOGOS_MAX_CONCURRENCY ELSE n

(* a future that does not end is given up and leaves the buffer *)
InFlightExpiring ==
    Cardinality({i \in DOMAIN tasks : tasks[i].st \in {"spawned", "resolved"}})

(* futures held by buffer_unordered: pulled from the stream, not yet yielded *)
InFlight ==
    Cardinality({i \in DOMAIN tasks : tasks[i].st \in {"spawned", "hung", "resolved"}})

(* pulls only while a second slot is free *)
CanStartTooStrict(inFlight, limit) == inFlight + 1 < limit

(* off by one: pulls while it holds no more than `limit` *)
CanStartOffByOne(inFlight, limit) == inFlight <= limit

(* buffer_unordered(concurrency) pulls the next future only while it holds *)
(* fewer than `concurrency` of them                                        *)
CanStart(inFlight, limit) == inFlight < limit

(* format!("{LOGOS_PATH}/{file_name}") with file_name = format!("{}.svg", logo.digest) *)
LogoPath(digest) == <<LOGOS_PATH, "/", digest, ".svg">>

(* the file output_dir.join(LOGOS_PATH).join(&file_name) *)
LogoFile(digest) == <<LOGOS_PATH, digest, ".svg">>

(* the path is returned although the file could not be created *)
LogoResultIgnoringCreate(out, digest, createOk, writeOk) ==
    IF out # "ok" THEN None ELSE Some(<<LOGOS_PATH, "/", digest, ".svg">>)

(* Value the closure returns next to item.id: None when prepare_logo      *)
(* failed, when its task failed, or when the file could not be created.   *)
(* A failed write_all is logged and nothing else.                          *)
LogoResult(out, digest, createOk, writeOk) ==
    IF out # "ok" THEN None
    ELSE IF ~createOk THEN None
    ELSE Some(LogoPath(digest))

(* the file is created and the bytes are never written to it *)
FileAfterCopyWithoutWrite(before, out, createOk, writeOk) ==
    IF out # "ok" \/ ~createOk THEN before ELSE "truncated"

(* the file is removed when the write fails *)
FileAfterCopyRemovingOnError(before, out, createOk, writeOk) ==
    IF out # "ok" \/ ~createOk THEN before
    ELSE IF writeOk THEN "written"
    ELSE "absent"

(* File::create truncates or creates; write_all fills the file *)
FileAfterCopy(before, out, createOk, writeOk) ==
    IF out # "ok" \/ ~createOk THEN before
    ELSE IF writeOk THEN "written"
    ELSE "truncated"

(* the results are kept under their order of arrival, not under the id *)
MapInsertByArrival(m, k, v) == m \cup {[id |-> Cardinality(m) + 1, val |-> v]}

(* HashMap insert and get *)
MapInsert(m, k, v) == {e \in m : e.id # k} \cup {[id |-> k, val |-> v]}
MapHas(m, k) == \E e \in m : e.id = k
MapGet(m, k) == (CHOOSE e \in m : e.id = k).val

(* the logo reference is kept when no logo was prepared *)
UpdatedItemKeepingReference(item, m) ==
    [item EXCEPT !.logo = IF MapHas(m, item.id) /\ MapGet(m, item.id).some
                          THEN MapGet(m, item.id).v
                          ELSE item.logo]

(* item.logo = if let Some(Some(logo)) = logos.get(&item.id) { logo } else { String::new() } *)
UpdatedItem(item, m) ==
    [item EXCEPT !.logo = IF MapHas(m, item.id) /\ MapGet(m, item.id).some
                          THEN MapGet(m, item.id).v
                          ELSE <<>>]

(* the items are rebuilt from those that have a logo *)
UpdateItemsWithLogo(its, m) ==
    LET HasLogo(item) == MapHas(m, item.id) /\ MapGet(m, item.id).some
        kept == SelectSeq(its, HasLogo)
    IN  [i \in DOMAIN kept |->
            [kept[i] EXCEPT !.logo = MapGet(m, kept[i].id).v]]

(* for item in &mut landscape_data.items { .. } *)
UpdateItems(its, m) == [i \in DOMAIN its |-> UpdatedItem(its[i], m)]

PrepareLogosStart ==
    /\ pc = "prepare_logos"
    /\ concurrency' = Concurrency(cpus)
    /\ loaded' = items
    /\ tasks' = [i \in DOMAIN items |-> NoTask]
    /\ next' = 1
    /\ logos' = {}
    /\ pc' = "logos_stream"
    /\ UNCHANGED <<error, webAssets, dirs, outFiles, written, logoFiles, items, cpus,
                   env, credentials, coll, extData>>

(* buffer_unordered takes the next item's future and polls it: the task   *)
(* running prepare_logo is spawned                                         *)
StartLogo ==
    /\ pc = "logos_stream"
    /\ next <= Len(items)
    /\ CanStart(InFlight, concurrency)
    /\ tasks' = [tasks EXCEPT ![next].st = "spawned", ![next].runs = @ + 1]
    /\ next' = next + 1
    /\ UNCHANGED <<pc, error, webAssets, dirs, outFiles, written, logoFiles, items, loaded,
                   cpus, concurrency, logos, env, credentials, coll, extData>>

(* the spawned task creates the logo file itself, before its result is     *)
(* awaited and the bytes are written                                       *)
TaskFinishCreatingFile(i) ==
    /\ tasks[i].st = "spawned"
    /\ \/ \E d \in Digests :
            /\ tasks' = [tasks EXCEPT ![i].st = "resolved", ![i].out = "ok", ![i].digest = d]
            /\ logoFiles' = [logoFiles EXCEPT ![d] = "truncated"]
       \/ \E o \in {"err", "join_err"} :
            /\ tasks' = [tasks EXCEPT ![i].st = "resolved", ![i].out = o]
            /\ logoFiles' = logoFiles
    /\ UNCHANGED <<pc, error, webAssets, dirs, outFiles, written, items, loaded,
                   cpus, concurrency, next, logos, env, credentials, coll, extData>>

(* the spawned task ends: prepare_logo returned Ok or Err, or the task     *)
(* panicked or was aborted (JoinError)                                     *)
TaskFinish(i) ==
    /\ tasks[i].st = "spawned"
    /\ \/ \E d \in Digests :
            tasks' = [tasks EXCEPT ![i].st = "resolved", ![i].out = "ok", ![i].digest = d]
       \/ \E o \in {"err", "join_err"} :
            tasks' = [tasks EXCEPT ![i].st = "resolved", ![i].out = o]
    /\ UNCHANGED <<pc, error, webAssets, dirs, outFiles, written, logoFiles, items, loaded,
                   cpus, concurrency, next, logos, env, credentials, coll, extData>>

(* prepare_logo never returns: neither the code nor the model gives the    *)
(* call a deadline                                                         *)
TaskHang(i) ==
    /\ tasks[i].st = "spawned"
    /\ tasks' = [tasks EXCEPT ![i].st = "hung"]
    /\ UNCHANGED <<pc, error, webAssets, dirs, outFiles, written, logoFiles, items, loaded,
                   cpus, concurrency, next, logos, env, credentials, coll, extData>>

CopyOutcome(out, createOk, writeOk) ==
    IF out # "ok" THEN "none"
    ELSE IF ~createOk THEN "create_failed"
    ELSE IF ~writeOk THEN "write_failed"
    ELSE "written"

(* the item's future writes the logo field of its item itself *)
CopyLogoUpdatingItem(i) ==
    /\ pc = "logos_stream"
    /\ tasks[i].st = "resolved"
    /\ \E createOk \in BOOLEAN, writeOk \in BOOLEAN :
         LET t == tasks[i] IN
         /\ (t.out # "ok" => createOk /\ writeOk)
         /\ (~createOk => writeOk)
         /\ logos' = MapInsert(logos, items[i].id, LogoResult(t.out, t.digest, createOk, writeOk))
         /\ items' = [items EXCEPT ![i] = UpdatedItem(@, logos')]
         /\ IF t.out = "ok"
            THEN /\ logoFiles' = [logoFiles EXCEPT
                                    ![t.digest] = FileAfterCopy(@, t.out, createOk, writeOk)]
                 /\ written' = IF createOk THEN written \cup {LogoFile(t.digest)} ELSE written
            ELSE UNCHANGED <<logoFiles, written>>
         /\ tasks' = [tasks EXCEPT ![i].st = "done",
                                   ![i].copy = CopyOutcome(t.out, createOk, writeOk),
                                   ![i].late = \E j \in 1..(i - 1) : tasks[j].st # "done"]
    /\ UNCHANGED <<pc, error, webAssets, dirs, outFiles, loaded,
                   cpus, concurrency, next, env, credentials, coll, extData>>

(* the item's future is polled after its task ended: the match on the     *)
(* join result, the copy of the logo to the output directory and the       *)
(* (id, Option<String>) pair collected into the map, without suspension    *)
CopyLogo(i) ==
    /\ pc = "logos_stream"
    /\ tasks[i].st = "resolved"
    /\ \E createOk \in BOOLEAN, writeOk \in BOOLEAN :
         LET t == tasks[i] IN
         /\ (t.out # "ok" => createOk /\ writeOk)
         /\ (~createOk => writeOk)
         /\ logos' = MapInsert(logos, items[i].id, LogoResult(t.out, t.digest, createOk, writeOk))
         /\ IF t.out = "ok"
            THEN /\ logoFiles' = [logoFiles EXCEPT
                                    ![t.digest] = FileAfterCopy(@, t.out, createOk, writeOk)]
                 /\ written' = IF createOk THEN written \cup {LogoFile(t.digest)} ELSE written
            ELSE UNCHANGED <<logoFiles, written>>
         /\ tasks' = [tasks EXCEPT ![i].st = "done",
                                   ![i].copy = CopyOutcome(t.out, createOk, writeOk),
                                   ![i].late = \E j \in 1..(i - 1) : tasks[j].st # "done"]
    /\ UNCHANGED <<pc, error, webAssets, dirs, outFiles, items, loaded,
                   cpus, concurrency, next, env, credentials, coll, extData>>

(* the buffered stream ends as soon as the items are exhausted, with       *)
(* futures still in the buffer                                             *)
StreamDoneEarly(nextIndex, count, inFlight) == nextIndex > count

(* buffer_unordered ends, and collect() with it, when the stream of items  *)
(* is exhausted and the buffer is empty                                    *)
StreamDone(nextIndex, count, inFlight) == nextIndex > count /\ inFlight = 0

(* collect() completes, the items' logo fields are updated and             *)
(* prepare_logos returns Ok(())                                            *)
UpdateLogos ==
    /\ pc = "logos_stream"
    /\ StreamDone(next, Len(items), InFlight)
    /\ items' = UpdateItems(items, logos)
    /\ pc' = "read_credentials"
    /\ UNCHANGED <<error, webAssets, dirs, outFiles, written, logoFiles, loaded,
                   cpus, concurrency, next, tasks, logos, env, credentials, coll, extData>>

-----------------------------------------------------------------------------
(* S6: read_credentials() and the join of the two collectors *)

(* split that skips the empty fields *)
RECURSIVE SplitSkippingEmpty(_, _)
SplitSkippingEmpty(s, field) ==
    IF s = <<>> THEN (IF field = <<>> THEN <<>> ELSE <<field>>)
    ELSE IF Head(s) = ","
    THEN (IF field = <<>> THEN <<>> ELSE <<field>>) \o SplitSkippingEmpty(Tail(s), <<>>)
    ELSE SplitSkippingEmpty(Tail(s), Append(field, Head(s)))

splitNonEmpty(s) == SplitSkippingEmpty(s, <<>>)

(* str::split(','): the fields between the commas, in order; a string with *)
(* k commas has k + 1 fields, empty ones included                          *)
RECURSIVE SplitFrom(_, _)
SplitFrom(s, field) ==
    IF s = <<>> THEN <<field>>
    ELSE IF Head(s) = "," THEN <<field>> \o SplitFrom(Tail(s), <<>>)
    ELSE SplitFrom(Tail(s), Append(field, Head(s)))

split(s) == SplitFrom(s, <<>>)

(* env::var(..) is Ok for a variable that is set: Some(value), or          *)
(* Some(value.split(',').map(ToString::to_string).collect())               *)
read_credentials(e) ==
    [crunchbase_api_key |-> IF e.key.some THEN Some(e.key.v) ELSE None,
     github_tokens |-> IF e.tokens.some THEN Some(split(e.tokens.v)) ELSE None]

(* let credentials = read_credentials(); then try_join! creates and polls  *)
(* the two collector futures. The locals of prepare_logos, kept until here *)
(* as the record of the logo stage, are gone.                              *)
ReadCredentials ==
    /\ pc = "read_credentials"
    /\ credentials' = read_credentials(env)
    /\ coll' = [c \in Collectors |-> [st |-> "running", steps |-> 0]]
    /\ pc' = "try_join"
    /\ concurrency' = 0
    /\ next' = 1
    /\ tasks' = <<>>
    /\ logos' = {}
    /\ UNCHANGED <<error, webAssets, dirs, outFiles, written, logoFiles, items, loaded,
                   cpus, env, extData>>

(* a collector future is polled and suspends again *)
CollectorStep(c) ==
    /\ coll[c].st = "running"
    /\ coll[c].steps < MaxCollectorSteps
    /\ coll' = [coll EXCEPT ![c].steps = @ + 1]
    /\ UNCHANGED <<pc, error, webAssets, dirs, outFiles, written, logoFiles, items, loaded,
                   cpus, concurrency, next, tasks, logos, env, credentials, extData>>

(* the collector never completes: the join gives it no deadline *)
CollectorHang(c) ==
    /\ coll[c].st = "running"
    /\ coll' = [coll EXCEPT ![c].st = "hung"]
    /\ UNCHANGED <<pc, error, webAssets, dirs, outFiles, written, logoFiles, items, loaded,
                   cpus, concurrency, next, tasks, logos, env, credentials, extData>>

(* the other collector is left running, detached from the join *)
DropNothing(cs, failed) == cs

(* try_join! returns Err: `?` leaves build(), the join and both futures    *)
(* it owns are dropped; a collector still running is cancelled by that     *)
DropOthers(cs, failed) ==
    [c \in Collectors |-> IF cs[c].st \in {"running", "hung"}
                          THEN [cs[c] EXCEPT !.st = "dropped"]
                          ELSE cs[c]]

(* a join that waits for both collectors and does not look at their Results *)
JoinIgnoringErrors(cs, c) ==
    IF \A o \in Collectors : cs[o].st \in {"ok", "err"}
    THEN [pc |-> "add_crunchbase_data", error |-> "", coll |-> cs,
          data |-> {o \in Collectors : cs[o].st = "ok"}]
    ELSE [pc |-> "try_join", error |-> "", coll |-> cs, data |-> {}]

(* a join that returns with the first collector that is ready *)
JoinFirstReady(cs, c) ==
    IF cs[c].st = "err"
    THEN [pc |-> "failed", error |-> c, coll |-> cs, data |-> {}]
    ELSE [pc |-> "add_crunchbase_data", error |-> "", coll |-> cs,
          data |-> {o \in Collectors : cs[o].st = "ok"}]

(* try_join! after the poll in which collector c became ready: the first   *)
(* Err is returned at once; Ok((a, b)) once both are ready                 *)
try_join(cs, c) ==
    IF cs[c].st = "err"
    THEN [pc |-> "failed", error |-> c, coll |-> DropOthers(cs, c), data |-> {}]
    ELSE IF \A o \in Collectors : cs[o].st = "ok"
    THEN [pc |-> "add_crunchbase_data", error |-> "", coll |-> cs, data |-> Collectors]
    ELSE [pc |-> "try_join", error |-> "", coll |-> cs, data |-> {}]

(* a collector future becomes ready, with Ok(data) or Err *)
CollectorComplete(c) ==
    /\ pc = "try_join"
    /\ coll[c].st = "running"
    /\ \E ok \in BOOLEAN :
         LET r == try_join([coll EXCEPT ![c].st = IF ok THEN "ok" ELSE "err"], c)
         IN  /\ pc' = r.pc
             /\ error' = r.error
             /\ coll' = r.coll
             /\ extData' = r.data
    /\ UNCHANGED <<webAssets, dirs, outFiles, written, logoFiles, items, loaded,
                   cpus, concurrency, next, tasks, logos, env, credentials>>

-----------------------------------------------------------------------------
(* S7: merge, datasets, index, web assets *)

(* landscape_data.add_crunchbase_data(crunchbase_data)? *)
AddCrunchbaseData ==
    /\ pc = "add_crunchbase_data"
    /\ \E ok \in BOOLEAN :
         IF ok THEN pc' = "add_github_data" /\ error' = error
         ELSE Fail("add_crunchbase_data")
    /\ UNCHANGED <<webAssets, dirs, outFiles, written, logoFiles, items, loaded, cpus,
                   concurrency, next, tasks, logos, env, credentials, coll, extData>>

(* landscape_data.add_github_data(github_data)? *)
AddGithubData ==
    /\ pc = "add_github_data"
    /\ \E ok \in BOOLEAN :
         IF ok THEN pc' = "generate_datasets" /\ error' = error
         ELSE Fail("add_github_data")
    /\ UNCHANGED <<webAssets, dirs, outFiles, written, logoFiles, items, loaded, cpus,
                   concurrency, next, tasks, logos, env, credentials, coll, extData>>

BaseJson == <<DATASETS_PATH, "base.json">>
FullJson == <<DATASETS_PATH, "full.json">>
IndexHtml == <<"index.html">>

(* Files generate_datasets has created when it stops at step failAt        *)
(* (0: no failure): 1 Datasets::new, 2 create base.json, 3 write it,       *)
(* 4 create full.json, 5 write it                                          *)
generate_datasets(failAt) ==
    IF failAt \in {1, 2} THEN {}
    ELSE IF failAt \in {3, 4} THEN {BaseJson}
    ELSE {BaseJson, FullJson}

GenerateDatasets ==
    /\ pc = "generate_datasets"
    /\ \E failAt \in 0..5 :
         /\ outFiles' = outFiles \cup generate_datasets(failAt)
         /\ written' = written \cup generate_datasets(failAt)
         /\ IF failAt = 0 THEN pc' = "render_index" /\ error' = error
            ELSE Fail("generate_datasets")
    /\ UNCHANGED <<webAssets, dirs, logoFiles, items, loaded, cpus,
                   concurrency, next, tasks, logos, env, credentials, coll, extData>>

(* render_index: 1 render, 2 create index.html, 3 write it *)
render_index(failAt) == IF failAt \in {1, 2} THEN {} ELSE {IndexHtml}

RenderIndex ==
    /\ pc = "render_index"
    /\ \E failAt \in 0..3 :
         /\ outFiles' = outFiles \cup render_index(failAt)
         /\ written' = written \cup render_index(failAt)
         /\ IF failAt = 0 THEN pc' = "copy_web_assets" /\ error' = error
            ELSE Fail("render_index")
    /\ UNCHANGED <<webAssets, dirs, logoFiles, items, loaded, cpus,
                   concurrency, next, tasks, logos, env, credentials, coll, extData>>

(* copy_web_assets: every embedded file but index.html and .keep; an I/O   *)
(* error stops the copy with part of the files written                     *)
CopyWebAssets ==
    /\ pc = "copy_web_assets"
    /\ \E copied \in SUBSET CopiedAssets(webAssets) :
         /\ outFiles' = outFiles \cup copied
         /\ written' = written \cup copied
         /\ IF copied = CopiedAssets(webAssets) THEN pc' = "done" /\ error' = error
            ELSE Fail("copy_web_assets")
    /\ UNCHANGED <<webAssets, dirs, logoFiles, items, loaded, cpus,
                   concurrency, next, tasks, logos, env, credentials, coll, extData>>

-----------------------------------------------------------------------------
Next ==
    \/ CheckWebAssets
    \/ SetupOutputDir
    \/ CacheNew
    \/ GetLandscapeData
    \/ GetLandscapeSettings
    \/ Enrich
    \/ PrepareLogosStart
    \/ StartLogo
    \/ \E i \in DOMAIN tasks : TaskFinish(i)
    \/ \E i \in DOMAIN tasks : TaskHang(i)
    \/ \E i \in DOMAIN tasks : CopyLogo(i)
    \/ UpdateLogos
    \/ ReadCredentials
    \/ \E c \in Collectors : CollectorStep(c)
    \/ \E c \in Collectors : CollectorHang(c)
    \/ \E c \in Collectors : CollectorComplete(c)
    \/ AddCrunchbaseData
    \/ AddGithubData
    \/ GenerateDatasets
    \/ RenderIndex
    \/ CopyWebAssets

Spec == Init /\ [][Next]_vars

-----------------------------------------------------------------------------
(* read_credentials on its own: every bounded value of the two variables   *)

InitCred ==
    /\ pc = "read_credentials"
    /\ error = ""
    /\ webAssets = BuiltBundle
    /\ dirs = {"out", DATASETS_PATH, LOGOS_PATH}
    /\ outFiles = {}
    /\ written = {}
    /\ logoFiles = [d \in Digests |-> "absent"]
    /\ items = <<>>
    /\ loaded = <<>>
    /\ cpus \in CpuCounts
    /\ concurrency = Concurrency(cpus)
    /\ next = 1
    /\ tasks = <<>>
    /\ logos = {}
    /\ env \in [key : KeyValues, tokens : EnvValues]
    /\ credentials = [crunchbase_api_key |-> None, github_tokens |-> None]
    /\ coll = [c \in Collectors |-> [st |-> "idle", steps |-> 0]]
    /\ extData = {}

NextCred == ReadCredentials

SpecCred == InitCred /\ [][NextCred]_vars

-----------------------------------------------------------------------------
(* Properties *)

LateErrors ==
    Collectors \cup {"add_crunchbase_data", "add_github_data", "generate_datasets",
                     "render_index", "copy_web_assets"}

(* prepare_logos has returned *)
LogoStageDone ==
    \/ pc \in {"read_credentials", "try_join", "add_crunchbase_data", "add_github_data",
               "generate_datasets", "render_index", "copy_web_assets", "done"}
    \/ pc = "failed" /\ error \in LateErrors

(* prepare_logos has returned and the record of its tasks is still at hand *)
LogoStageReturned == pc = "read_credentials" /\ DOMAIN tasks = DOMAIN items

ResolutionFailed(i) == tasks[i].out \in {"err", "join_err"}

(* C1: during the logo stage the number of logo operations started and    *)
(* not yet completed never exceeds min(available_parallelism, 20), and an  *)
(* operation is started only when fewer than that many are in flight.      *)
C1_InFlightBounded ==
    /\ InFlight <= Min(cpus, PREPARE_LOGOS_MAX_CONCURRENCY)
    /\ pc = "logos_stream" => concurrency = Min(cpus, PREPARE_LOGOS_MAX_CONCURRENCY)

C1_ConcurrencyBound ==
    /\ []C1_InFlightBounded
    /\ [][next' > next => InFlight < Min(cpus, PREPARE_LOGOS_MAX_CONCURRENCY)]_vars

C1_Witness ==
    /\ pc = "logos_stream"
    /\ next <= Len(items)
    /\ InFlight = Min(cpus, PREPARE_LOGOS_MAX_CONCURRENCY)
    /\ \E i \in DOMAIN tasks : tasks[i].st = "done"

(* C2 as stated: after prepare_logos returns, exactly the entities whose   *)
(* logo resolution failed (resolver error or task failure) have an empty   *)
(* logo, every other entity has logos/<digest>.svg, and the stage          *)
(* succeeded.                                                              *)
C2_ExactlyResolutionFailures ==
    LogoStageReturned =>
        /\ error = ""
        /\ \A i \in DOMAIN items :
             IF ResolutionFailed(i) THEN items[i].logo = <<>>
             ELSE items[i].logo = LogoPath(tasks[i].digest)

(* C2 amended: after prepare_logos returns, exactly the entities whose     *)
(* logo resolution failed or whose output file could not be created have   *)
(* an empty logo, every other entity has logos/<digest>.svg; the stage     *)
(* never fails, whatever the set of failing entities.                      *)
C2_IsolationState ==
    LogoStageReturned =>
        /\ error = ""
        /\ \A i \in DOMAIN items :
             IF ResolutionFailed(i) \/ tasks[i].copy = "create_failed"
             THEN items[i].logo = <<>>
             ELSE items[i].logo = LogoPath(tasks[i].digest)

C2_Isolation ==
    /\ []C2_IsolationState
    /\ [][pc = "logos_stream" => pc' \in {"logos_stream", "read_credentials"}]_vars

C2_Witness ==
    /\ LogoStageReturned
    /\ Len(items) >= 2
    /\ \A i \in DOMAIN items : ResolutionFailed(i) /\ items[i].logo = <<>>
    /\ \E i, j \in DOMAIN items : tasks[i].out = "err" /\ tasks[j].out = "join_err"

(* C3: an entity for which any step of the logo processing failed (fetch,  *)
(* normalize, creating the output file or writing the bytes) has an empty  *)
(* logo after the logo stage.                                              *)
C3_AnyFailureEmptiesLogo ==
    LogoStageReturned =>
        \A i \in DOMAIN items :
            (ResolutionFailed(i) \/ tasks[i].copy \in {"create_failed", "write_failed"})
                => items[i].logo = <<>>

(* C4: after the logo stage every entity's logo is empty or is             *)
(* logos/<digest>.svg for a file <digest>.svg that this run created in the *)
(* logos directory and that exists.                                        *)
C4_LogoFileExists ==
    LogoStageDone =>
        \A i \in DOMAIN items :
            \/ items[i].logo = <<>>
            \/ \E d \in Digests :
                 /\ items[i].logo = LogoPath(d)
                 /\ LogoFile(d) \in written
                 /\ logoFiles[d] # "absent"

C4_Witness ==
    /\ pc = "done"
    /\ \E i, j \in DOMAIN items : items[i].logo = LogoPath("d2") /\ items[j].logo = <<>>

(* C5: the logo stage keeps the sequence of entities: same length, same    *)
(* ids in the same order, and nothing but the logo field differs.          *)
C5_IdentityPreserved ==
    LogoStageDone =>
        /\ Len(items) = Len(loaded)
        /\ \A i \in DOMAIN items :
             /\ items[i].id = loaded[i].id
             /\ [items[i] EXCEPT !.logo = loaded[i].logo] = loaded[i]

C5_Witness ==
    /\ LogoStageReturned
    /\ Len(items) >= 2
    /\ \E i, j \in DOMAIN items : items[i].logo = <<>> /\ items[j].logo \notin {<<>>, loaded[j].logo}

(* C6: when a collector fails, the build ends with that collector's        *)
(* failure whatever the other one did or would do, and this run writes     *)
(* neither data/base.json nor data/full.json nor index.html nor any asset. *)
C6_JoinFailurePropagates ==
    \A a \in Collectors :
        coll[a].st = "err" =>
            /\ pc = "failed"
            /\ error = a
            /\ written \cap ({BaseJson, FullJson, IndexHtml} \cup CopiedAssets(webAssets)) = {}

C6_Witness ==
    /\ pc = "failed"
    /\ coll["crunchbase"].st = "err"
    /\ coll["github"].st = "ok"

(* C7: a collector's failure ends the join at once, with the other         *)
(* collector still short of completion; no result is handed over, and      *)
(* afterwards no collector runs or makes a step: the other future is       *)
(* dropped.                                                                *)
C7_NothingRunsAfterFailure ==
    /\ \A c \in Collectors : coll[c].st = "running" => pc = "try_join"
    /\ (pc = "failed" /\ error \in Collectors) =>
          /\ extData = {}
          /\ coll[error].st = "err"
          /\ \A c \in Collectors \ {error} : coll[c].st \in {"dropped", "ok"}

C7_OtherCollectorDropped ==
    /\ []C7_NothingRunsAfterFailure
    /\ [][pc = "failed" => coll' = coll]_vars

C7_Witness ==
    /\ pc = "failed"
    /\ error = "github"
    /\ coll["crunchbase"].st = "dropped"
    /\ coll["crunchbase"].steps < MaxCollectorSteps

(* C8: merging and dataset generation happen only with both collectors     *)
(* completed successfully and both results handed over; when both          *)
(* collectors succeed the join yields both results.                        *)
C8_BothResultsPresent ==
    /\ pc \in {"add_crunchbase_data", "add_github_data", "generate_datasets"} =>
          /\ extData = Collectors
          /\ \A c \in Collectors : coll[c].st = "ok"
    /\ (\A c \in Collectors : coll[c].st = "ok") =>
          /\ extData = Collectors
          /\ pc # "try_join"

C8_Witness ==
    /\ pc = "generate_datasets"
    /\ extData = Collectors

(* Joining the fields with commas gives the value back *)
RECURSIVE JoinComma(_)
JoinComma(fields) ==
    IF Len(fields) = 0 THEN <<>>
    ELSE IF Len(fields) = 1 THEN fields[1]
    ELSE fields[1] \o <<",">> \o JoinComma(Tail(fields))

Commas(s) == Cardinality({i \in DOMAIN s : s[i] = ","})

CredentialsRead == pc = "try_join"

(* C9: read_credentials turns the token variable into the list of its      *)
(* comma-separated fields in order (k fields give k elements, "t1,t2,t3"   *)
(* gives t1, t2, t3) and an unset variable into no list; the API key is    *)
(* the variable's value when set and absent when unset.                    *)
C9_CredentialParsing ==
    CredentialsRead =>
        /\ credentials.crunchbase_api_key = env.key
        /\ credentials.github_tokens.some = env.tokens.some
        /\ ~env.tokens.some => credentials.github_tokens = None
        /\ env.tokens.some =>
             LET l == credentials.github_tokens.v
             IN  /\ Len(l) = Commas(env.tokens.v) + 1
                 /\ JoinComma(l) = env.tokens.v
                 /\ \A i \in DOMAIN l : Commas(l[i]) = 0
        /\ env.tokens = Some(TokenExample) =>
             credentials.github_tokens = Some(<< <<"t", "1">>, <<"t", "2">>, <<"t", "3">> >>)

C9_Witness ==
    /\ CredentialsRead
    /\ env.tokens = Some(TokenExample)
    /\ Len(credentials.github_tokens.v) = 3
    /\ credentials.crunchbase_api_key.some

(* C10: every element of the token list read_credentials produces is a     *)
(* non-empty string, whatever the value of the variable.                   *)
C10_TokensNonEmpty ==
    (CredentialsRead /\ credentials.github_tokens.some) =>
        \A i \in DOMAIN credentials.github_tokens.v : credentials.github_tokens.v[i] # <<>>

-----------------------------------------------------------------------------
(* setup_output_dir on its own, run twice on every bounded output tree:    *)
(* absent, empty, or holding any of the two directories, an unrelated      *)
(* directory, unrelated files and files of an earlier build                *)

SetupTrees ==
    {[d |-> {}, f |-> {}, l |-> {}]} \cup
    { [d |-> {"out"} \cup sub, f |-> fs, l |-> ls] :
        sub \in SUBSET {DATASETS_PATH, LOGOS_PATH, "old"},
        fs \in SUBSET {<<"README">>, <<"index.html">>, <<DATASETS_PATH, "base.json">>},
        ls \in SUBSET Digests }

WellFormedTree(t) ==
    /\ (<<DATASETS_PATH, "base.json">> \in t.f => DATASETS_PATH \in t.d)
    /\ (t.l # {} => LOGOS_PATH \in t.d)

InitSetup ==
    /\ pc = "setup_output_dir"
    /\ error = ""
    /\ webAssets = BuiltBundle
    /\ \E t \in SetupTrees :
         /\ WellFormedTree(t)
         /\ dirs = t.d
         /\ outFiles = t.f
         /\ logoFiles = [d \in Digests |-> IF d \in t.l THEN "written" ELSE "absent"]
    /\ written = {}
    /\ items = <<>>
    /\ loaded = <<>>
    /\ cpus = 1
    /\ concurrency = 0
    /\ next = 1
    /\ tasks = <<>>
    /\ logos = {}
    /\ env = [key |-> None, tokens |-> None]
    /\ credentials = [crunchbase_api_key |-> None, github_tokens |-> None]
    /\ coll = [c \in Collectors |-> [st |-> "idle", steps |-> 0]]
    /\ extData = {}

(* setup_output_dir called once more on the tree the first call left *)
SetupOutputDirAgain == SetupRun("cache_new", "setup_twice")

NextSetup == SetupOutputDir \/ SetupOutputDirAgain

SpecSetup == InitSetup /\ [][NextSetup]_vars

AllSetupDirs == {SetupOrder[k] : k \in DOMAIN SetupOrder}

(* C11 as stated: on every output tree setup_output_dir succeeds, the      *)
(* output directory, data/ and logos/ exist afterwards, nothing that       *)
(* existed is lost, and a second run changes nothing.                      *)
C11_SetupAlwaysSucceeds ==
    /\ pc # "failed"
    /\ pc \in {"cache_new", "setup_twice"} => AllSetupDirs \subseteq dirs

(* C11 amended: setup_output_dir fails only when the creation of a         *)
(* directory that is absent fails; when it succeeds the output directory,  *)
(* data/ and logos/ exist; in every case each directory and file that      *)
(* existed still exists unchanged; a second run after a successful one     *)
(* succeeds and changes nothing.                                           *)
C11_DirsExistAfterSetup ==
    pc \in {"cache_new", "setup_twice"} => AllSetupDirs \subseteq dirs

C11_SetupIdempotent ==
    /\ []C11_DirsExistAfterSetup
    /\ [][/\ dirs \subseteq dirs'
          /\ dirs' \subseteq dirs \cup AllSetupDirs
          /\ outFiles' = outFiles
          /\ logoFiles' = logoFiles
          /\ pc' = "failed" => ~(AllSetupDirs \subseteq dirs)
          /\ pc = "cache_new" => pc' = "setup_twice" /\ dirs' = dirs]_vars

C11_Witness ==
    /\ pc = "setup_twice"
    /\ "old" \in dirs
    /\ <<"README">> \in outFiles
    /\ logoFiles["d1"] = "written"

-----------------------------------------------------------------------------
(* the logo files this run created for digest d *)
LogoFilesFor(d) == {f \in written : Len(f) = 3 /\ f[1] = LOGOS_PATH /\ f[2] = d}

SameDigest(i, j, d) ==
    /\ i # j
    /\ tasks[i].out = "ok" /\ tasks[i].digest = d
    /\ tasks[j].out = "ok" /\ tasks[j].digest = d

OneFileForBoth(i, j, d) ==
    /\ LogoFilesFor(d) = {LogoFile(d)}
    /\ logoFiles[d] = "written"
    /\ items[i].logo = LogoPath(d)
    /\ items[j].logo = LogoPath(d)

AllCopiesSucceeded(d) ==
    \A k \in DOMAIN tasks :
        (tasks[k].out = "ok" /\ tasks[k].digest = d) => tasks[k].copy = "written"

-----------------------------------------------------------------------------
(* The positions of build() in the order of its body, and the stage        *)
(* (S0..S7, 8 once built) each belongs to                                  *)
PcOrder ==
    <<"check_web_assets", "setup_output_dir", "cache_new", "get_landscape_data",
      "get_landscape_settings", "enrich", "prepare_logos", "logos_stream",
      "read_credentials", "try_join", "add_crunchbase_data", "add_github_data",
      "generate_datasets", "render_index", "copy_web_assets", "done">>

PcStage == <<0, 1, 2, 3, 3, 4, 5, 5, 6, 6, 7, 7, 7, 7, 7, 8>>

PcIndex(p) == CHOOSE k \in DOMAIN PcOrder : PcOrder[k] = p

StageNo(p) == PcStage[PcIndex(p)]

(* the stage whose failure an error reports *)
ErrorStage(e) ==
    CASE e = "web assets not found" -> 0
      [] e = "setup_output_dir" -> 1
      [] e = "cache" -> 2
      [] e \in {"landscape data", "landscape settings"} -> 3
      [] e = "featured items" -> 4
      [] e \in Collectors -> 6
      [] OTHER -> 7

(* the stage the build is in, or failed in *)
CurStage == IF pc = "failed" THEN ErrorStage(error) ELSE StageNo(pc)

LogoFilesWritten == {f \in written : f[1] = LOGOS_PATH}

(* what the stages leave behind is there only once the build has reached them *)
C13_EffectsFollowStages ==
    /\ (pc = "failed") <=> (error # "")
    /\ CurStage >= 2 => AllSetupDirs \subseteq dirs
    /\ items # <<>> => CurStage >= 3
    /\ tasks # <<>> => pc \in {"logos_stream", "read_credentials"}
    /\ LogoFilesWritten # {} => CurStage >= 5
    /\ (\E c \in Collectors : coll[c].st # "idle") =>
          /\ CurStage >= 6
          /\ Len(loaded) = Len(items)
          /\ \A i \in DOMAIN items : items[i].logo # loaded[i].logo
    /\ (extData # {} \/ written \ LogoFilesWritten # {}) => CurStage >= 7

(* C13: the build goes through S0..S7 in this order, a stage starting only *)
(* after the one before it succeeded (S6 only after S4 and S5); after a    *)
(* fatal error nothing more is done and the build ends with that error.    *)
C13_StageOrder ==
    /\ []C13_EffectsFollowStages
    /\ [][/\ pc \notin {"failed", "done"}
          /\ pc' = "failed" => ErrorStage(error') = StageNo(pc)
          /\ pc' # "failed" => PcIndex(pc') \in {PcIndex(pc), PcIndex(pc) + 1}]_vars

C13_Witness ==
    /\ pc = "failed"
    /\ error = "github"
    /\ LogoFilesWritten # {}
    /\ written \ LogoFilesWritten = {}

-----------------------------------------------------------------------------
(* C14: when prepare_logos returns, the per-item operation has been        *)
(* started exactly once for each entity and every one has completed: none  *)
(* in flight, none skipped, none run twice, one result per entity.         *)
C14_AllInvocationsDrained ==
    /\ \A i \in DOMAIN tasks : tasks[i].runs <= 1
    /\ LogoStageReturned =>
          /\ InFlight = 0
          /\ \A i \in DOMAIN items : tasks[i].st = "done" /\ tasks[i].runs = 1
          /\ {e.id : e \in logos} = {items[i].id : i \in DOMAIN items}
          /\ Cardinality(logos) = Len(items)

C14_Witness ==
    /\ LogoStageReturned
    /\ Len(items) > concurrency
    /\ \E i, j \in DOMAIN items : tasks[i].out = "ok" /\ tasks[j].out = "join_err"

-----------------------------------------------------------------------------
(* C15: no entity's logo field is written while a logo task is in flight:  *)
(* the fields are written in one step, after all the tasks have completed, *)
(* from the collected map, and no step of a task writes them.              *)
C15_ItemsUntouchedInStream == pc = "logos_stream" => items = loaded

C15_LogoWrittenAfterFanIn ==
    /\ []C15_ItemsUntouchedInStream
    /\ [][items' # items =>
            \/ pc = "get_landscape_data"
            \/ /\ pc = "logos_stream"
               /\ pc' = "read_credentials"
               /\ InFlight = 0
               /\ \A i \in DOMAIN tasks : tasks[i].st = "done"
               /\ tasks' = tasks
               /\ logos' = logos
               /\ items' = UpdateItems(items, logos)]_vars

C15_Witness ==
    /\ LogoStageReturned
    /\ \E i \in DOMAIN tasks : tasks[i].late
    /\ \E i \in DOMAIN items : items[i].logo \notin {<<>>, loaded[i].logo}

-----------------------------------------------------------------------------
(* the logo an entity ends with, from the outcome of its own task *)
ExpectedLogo(t) ==
    IF t.out = "ok" /\ t.copy \in {"written", "write_failed"} THEN LogoPath(t.digest)
    ELSE <<>>

(* C16: the outcome of the logo stage does not depend on the order in      *)
(* which the tasks complete: the entities are the loaded ones in the       *)
(* loaded order, each with the logo its own task's outcome determines.     *)
C16_OrderIndependent ==
    LogoStageReturned =>
        items = [i \in DOMAIN loaded |-> [loaded[i] EXCEPT !.logo = ExpectedLogo(tasks[i])]]

C16_Witness ==
    /\ LogoStageReturned
    /\ Len(items) >= 3
    /\ tasks[1].out = "err" /\ tasks[1].late = FALSE
    /\ tasks[2].out = "ok" /\ tasks[2].late /\ items[2].logo = LogoPath(tasks[2].digest)
    /\ tasks[3].out = "ok" /\ tasks[3].late /\ tasks[3].digest # tasks[2].digest
    /\ items[1].logo = <<>>

-----------------------------------------------------------------------------
(* C17: there is no timeout: with a logo resolution that never completes   *)
(* the logo stage never ends, and with a collector that never completes    *)
(* (the other one not having failed) the join never ends: no later stage   *)
(* starts and the build reaches no terminal state.                         *)
C17_HungCallStallsBuild ==
    /\ (\E i \in DOMAIN tasks : tasks[i].st = "hung") =>
          /\ pc = "logos_stream"
          /\ items = loaded
          /\ \A c \in Collectors : coll[c].st = "idle"
    /\ \A c \in Collectors :
          (coll[c].st = "hung" /\ \A o \in Collectors : coll[o].st # "err") =>
              /\ pc = "try_join"
              /\ extData = {}
              /\ written \ LogoFilesWritten = {}

C17_Witness ==
    /\ pc = "logos_stream"
    /\ Len(items) >= 2
    /\ next > Len(items)
    /\ tasks[1].st = "hung"
    /\ \A i \in DOMAIN tasks : i # 1 => tasks[i].st = "done"

-----------------------------------------------------------------------------
(* The build with collaborators that all return and a scheduler that runs  *)
(* what is ready: every call of prepare_logo and every collector ends, and *)
(* a step that can be taken is eventually taken.                           *)
InitLive ==
    /\ Init
    /\ webAssets = BuiltBundle
    /\ dirs = {}
    /\ cpus \in {1, 2}
    /\ ~env.key.some

NextLive ==
    \/ CheckWebAssets
    \/ SetupOutputDir
    \/ CacheNew
    \/ GetLandscapeData
    \/ GetLandscapeSettings
    \/ Enrich
    \/ PrepareLogosStart
    \/ StartLogo
    \/ \E i \in DOMAIN tasks : TaskFinish(i)
    \/ \E i \in DOMAIN tasks : CopyLogo(i)
    \/ UpdateLogos
    \/ ReadCredentials
    \/ \E c \in Collectors : CollectorStep(c)
    \/ \E c \in Collectors : CollectorComplete(c)
    \/ AddCrunchbaseData
    \/ AddGithubData
    \/ GenerateDatasets
    \/ RenderIndex
    \/ CopyWebAssets

SpecLive == InitLive /\ [][NextLive]_vars /\ WF_vars(NextLive)

Terminated == pc \in {"done", "failed"}

(* the logo stage is never stuck: an item waits only while the buffer is   *)
(* full, and the stage ends once all the items are done                    *)
C18_NoStall ==
    /\ (pc = "logos_stream" /\ next <= Len(items) /\ InFlight < concurrency)
          => ENABLED StartLogo
    /\ ~Terminated => ENABLED NextLive

(* C18: when every collaborator call returns, every build fairly scheduled *)
(* ends, built or with one fatal error, and never stalls with items        *)
(* waiting and the buffer not full.                                        *)
C18_BuildTerminates ==
    /\ <>Terminated
    /\ []C18_NoStall
    /\ [](Terminated => ((pc = "done") <=> (error = "")))

C18_Witness ==
    /\ pc = "done"
    /\ error = ""
    /\ Len(items) > concurrency
    /\ \E i \in DOMAIN items : items[i].logo = <<>>

-----------------------------------------------------------------------------
(* no logo file is seen created and not yet written: a truncated file is   *)
(* the trace of a write that failed                                        *)
C19_NoFileHalfWritten ==
    pc \in {"logos_stream", "read_credentials"} =>
        \A d \in Digests :
            logoFiles[d] = "truncated" =>
                \E i \in DOMAIN tasks :
                    tasks[i].st = "done" /\ tasks[i].digest = d /\ tasks[i].copy = "write_failed"

(* C19: a logo file is created and written in one step of the task that    *)
(* drives the stream, for one entity at a time: the copies of different    *)
(* entities never interleave, also on a file two entities share.           *)
C19_CopiesDoNotInterleave ==
    /\ []C19_NoFileHalfWritten
    /\ [][(logoFiles' # logoFiles \/ LogoFilesWritten' # LogoFilesWritten) =>
            /\ pc = "logos_stream"
            /\ \E i \in DOMAIN tasks :
                 /\ tasks[i].st = "resolved" /\ tasks[i].out = "ok"
                 /\ tasks'[i].st = "done"
                 /\ tasks'[i].copy \in {"written", "write_failed"}
                 /\ \A j \in DOMAIN tasks \ {i} : tasks'[j] = tasks[j]
                 /\ \A d \in Digests \ {tasks[i].digest} : logoFiles'[d] = logoFiles[d]
                 /\ logoFiles'[tasks[i].digest] =
                        (IF tasks'[i].copy = "written" THEN "written" ELSE "truncated")
                 /\ LogoFilesWritten' = LogoFilesWritten \cup {LogoFile(tasks[i].digest)}]_vars

C19_Witness ==
    /\ pc = "logos_stream"
    /\ \E i, j \in DOMAIN tasks :
         /\ i # j
         /\ tasks[i].st = "done" /\ tasks[i].copy = "written"
         /\ tasks[j].st = "resolved" /\ tasks[j].out = "ok" /\ tasks[j].digest = tasks[i].digest
         /\ logoFiles[tasks[i].digest] = "written"

-----------------------------------------------------------------------------
(* files of this run that belong to steps after the one that failed *)
FilesAfterFailure(e) ==
    IF e \in Collectors \cup {"add_crunchbase_data", "add_github_data"}
    THEN {BaseJson, FullJson, IndexHtml} \cup CopiedAssets(webAssets)
    ELSE IF e = "generate_datasets" THEN {IndexHtml} \cup CopiedAssets(webAssets)
    ELSE IF e = "render_index" THEN CopiedAssets(webAssets)
    ELSE {}

C20_OutputKeptAtFailure ==
    (pc = "failed" /\ error \in LateErrors) =>
        /\ AllSetupDirs \subseteq dirs
        /\ \A f \in LogoFilesWritten : logoFiles[f[2]] # "absent"
        /\ \A i \in DOMAIN items :
             items[i].logo # <<>> =>
                \E d \in Digests : items[i].logo = LogoPath(d) /\ LogoFile(d) \in LogoFilesWritten
        /\ written \cap FilesAfterFailure(error) = {}
        /\ written \ LogoFilesWritten \subseteq outFiles

(* C20: a fatal error rolls nothing back: no step removes a directory or   *)
(* a file, so at a failure in the external-data stage or later the         *)
(* directories of setup_output_dir and the logo files of the logo stage    *)
(* are there, and no file of a later step has been written by this run.    *)
C20_NoRollback ==
    /\ []C20_OutputKeptAtFailure
    /\ [][/\ dirs \subseteq dirs'
          /\ outFiles \subseteq outFiles'
          /\ written \subseteq written'
          /\ \A d \in Digests : logoFiles[d] # "absent" => logoFiles'[d] # "absent"]_vars

C20_Witness ==
    /\ pc = "failed"
    /\ error = "generate_datasets"
    /\ BaseJson \in written
    /\ FullJson \notin written
    /\ LogoFile("d2") \in written
    /\ \E i \in DOMAIN items : items[i].logo = LogoPath("d2")

====
